---- MODULE Spec2Model ----
(***************************************************************************)
(* Model of the route-acquisition orchestrator of safe-commute-frontend    *)
(* (src/safe-commute-frontend/src/App.jsx).                                *)
(*                                                                         *)
(* The session state is the set of React state cells of App.  Every click  *)
(* on "Get Routes", "SOS" or the report button starts a flow: an async     *)
(* handler whose closure holds the state of the render it was created in,  *)
(* and which is suspended at each remote call.  One action of the model is *)
(* one synchronous run of a handler between two suspension points; the     *)
(* setState calls made in one such run are committed together.             *)
(*                                                                         *)
(* Numbers with a fractional part are kept in hundredths (12.97 is 1297).  *)
(*                                                                         *)
(* Spec is a session of MaxFlows clicks, SpecLong the same session with    *)
(* one more click, SpecReports a session of one route and MaxReports       *)
(* reports, and SpecHelpers one call of getSafetyLabel or                  *)
(* getEmergencyNumber for every argument.                                  *)
(***************************************************************************)
EXTENDS Integers, Sequences, FiniteSets, TLC

VARIABLES showMap, cities, citiesLoaded, city, srcQuery, dstQuery,
          srcCoords, dstCoords, fastest, safest, activeTab, safeZones,
          reports, viewport, cityLoad, flows, lastRoute, lastPanic, edits, call

vars == <<showMap, cities, citiesLoaded, city, srcQuery, dstQuery,
          srcCoords, dstCoords, fastest, safest, activeTab, safeZones,
          reports, viewport, cityLoad, flows, lastRoute, lastPanic, edits,
          call>>

\* viewport is the last call of map.fitBounds (Null while the map is where
\* MapContainer put it); cityLoad is what became of the request of
\* loadCities and the alert it showed; lastPanic is the flow, the params and
\* the body of the last safe-zone response that was stored; call is the
\* call of a helper when a helper is looked at on its own
aside == <<viewport, cityLoad, lastPanic, call>>

\* flows is the sequence of the handlers started so far, in the order of
\* their clicks; lastRoute is the flow, the params and the body of the last
\* route response that was stored; edits counts the edits of the inputs
ui == <<showMap, cities, citiesLoaded, city, srcQuery, dstQuery, activeTab,
        edits>>

-----------------------------------------------------------------------------
(* Bounds *)

\* number of user actions (get routes, SOS, report) issued in one session
MaxFlows == 2

\* number of edits of the inputs (city, source, destination, tab) in one session
MaxEdits == 3

\* number of clicks on the report button in a session of reports
MaxReports == 3

\* the highest safety score the planning service sends
MaxScore == 100

-----------------------------------------------------------------------------
(* Values *)

\* JavaScript null
Null == [null |-> TRUE]

IsNull(v) == "null" \in DOMAIN v

\* JavaScript undefined
Undefined == [undefined |-> TRUE]

\* whether a JavaScript object has the key, and obj.key or obj?.key
Has(obj, key) == key \in DOMAIN obj

Get(obj, key) == IF Has(obj, key) THEN obj[key] ELSE Undefined

\* the first match of the geocoding service for a query in a city, as it
\* is sent: lat and lon are strings
FirstMatch(query, cityName) ==
  IF cityName = "bengaluru"
  THEN IF query = "Indiranagar"
       THEN [lat |-> "12.97", lon |-> "77.64",
             display_name |-> "Indiranagar, Bengaluru"]
       ELSE [lat |-> "12.98", lon |-> "77.61",
             display_name |-> "MG Road, Bengaluru"]
  ELSE IF query = "Indiranagar"
       THEN [lat |-> "12.30", lon |-> "76.65",
             display_name |-> "Indiranagar, Mysuru"]
       ELSE [lat |-> "12.31", lon |-> "76.64",
             display_name |-> "MG Road, Mysuru"]

\* parseFloat on the decimal strings the geocoder sends
parseFloat(str) ==
  CASE str = "12.97" -> 1297
    [] str = "12.98" -> 1298
    [] str = "77.64" -> 7764
    [] str = "77.61" -> 7761
    [] str = "12.30" -> 1230
    [] str = "12.31" -> 1231
    [] str = "76.65" -> 7665
    [] str = "76.64" -> 7664

\* the texts the user can have in the two inputs and the city selector
SrcQueries == {"", "Indiranagar"}

DstQueries == {"", "MG Road"}

CityList == <<"bengaluru", "mysuru">>

\* route payloads of the planning service; the last one has no score
Route60 ==
  [coords |-> <<<<1297, 7764>>, <<1298, 7761>>>>, distance_km |-> 520,
   time_min |-> 1800, safety_score |-> 60]

Route85 ==
  [coords |-> <<<<1297, 7764>>, <<1299, 7760>>, <<1298, 7761>>>>,
   distance_km |-> 610, time_min |-> 2400, safety_score |-> 85]

RouteNoScore == [coords |-> <<>>, distance_km |-> 0, time_min |-> 0]

RouteNoCoords == [distance_km |-> 300, time_min |-> 900, safety_score |-> 30]

\* bodies of GET /route: either kind may be missing from a malformed body
RouteData ==
  { [fastest |-> Route60, safest |-> Route85],
    [fastest |-> RouteNoScore, safest |-> Route60],
    [fastest |-> RouteNoScore, safest |-> RouteNoCoords],
    [fastest |-> Route60], [safest |-> Route85],
    [fastest |-> Null, safest |-> Route85] }

Zone1 == [lat |-> 1296, lon |-> 7763, type |-> "police", name |-> "Station"]
Zone2 == [lat |-> 1299, lon |-> 7762, type |-> "Hospital"]

\* bodies of GET /panic
PanicData ==
  { [safe_zones |-> z] : z \in {<<>>, <<Zone1>>, <<Zone2, Zone1>>} }
    \cup { [other |-> TRUE], Null }

-----------------------------------------------------------------------------
(* Helpers of App.jsx *)

\* variant of getSafetyLabel with the two thresholds exchanged
getSafetyLabel_swapped(score) ==
  IF score >= 40 THEN "safe"
  ELSE IF score >= 75 THEN "moderate"
  ELSE "unsafe"

\* variant of getSafetyLabel whose thresholds are exclusive
getSafetyLabel_exclusive(score) ==
  IF score > 75 THEN "safe"
  ELSE IF score > 40 THEN "moderate"
  ELSE "unsafe"

getSafetyLabel(score) ==
  IF score >= 75 THEN "safe"
  ELSE IF score >= 40 THEN "moderate"
  ELSE "unsafe"

\* payload?.safety_score || 0: a missing score and a score of 0 both give 0
ScoreOrZero(payload) ==
  IF Has(payload, "safety_score") THEN payload.safety_score ELSE 0

\* { ...payload, safety_label: getSafetyLabel(payload?.safety_score || 0) }:
\* spreading undefined or null gives no field, and the label written last
\* replaces a label the payload may carry
WithLabel(payload) ==
  [k \in (DOMAIN payload \ {"null", "undefined"}) \cup {"safety_label"} |->
     IF k = "safety_label" THEN getSafetyLabel(ScoreOrZero(payload))
     ELSE payload[k]]

\* the value geocodeLocation returns for a response body: the first match
GeoResult(data) ==
  IF Len(data) > 0
  THEN [lat |-> parseFloat(data[1].lat), lon |-> parseFloat(data[1].lon),
        display |-> data[1].display_name]
  ELSE Null

-----------------------------------------------------------------------------
(* Flows *)

\* the session fields the route flow writes, as they are at one moment
Snapshot ==
  [srcCoords |-> srcCoords, dstCoords |-> dstCoords, fastest |-> fastest,
   safest |-> safest, safeZones |-> safeZones]

\* what the handler of each button reads from the render it was created in
Closure(kind) ==
  CASE kind = "route" ->
         [city |-> city, srcQuery |-> srcQuery, dstQuery |-> dstQuery]
    [] kind = "panic" -> [city |-> city, srcCoords |-> srcCoords]
    [] kind = "report" -> [dstCoords |-> dstCoords, reports |-> reports]

\* a flow as it is when its handler is entered: the closure of the click,
\* the handler's locals (src, dst), the params of the request it waits for
\* (request), and its history: the requests it has sent (sent), the kind of
\* answer its last request got (got), the alert it has shown (alert),
\* whether it ran to its end without an alert or with the success alert
\* (ok), and the session as it was at the click (pre, route flows only),
\* which is forgotten as soon as another flow writes the session
NewFlow(kind) ==
  [kind |-> kind, pc |-> "start", closure |-> Closure(kind),
   src |-> Null, dst |-> Null, request |-> Null, sent |-> {}, got |-> "",
   alert |-> "", ok |-> FALSE,
   pre |-> IF kind = "route" THEN Snapshot ELSE Null]

\* the handler returns: its closure and locals are gone, its history stays
Return(fl, alert, ok) ==
  [fl EXCEPT !.pc = "done", !.alert = alert, !.ok = ok, !.closure = Null,
             !.src = Null, !.dst = Null, !.request = Null, !.pre = Null]

Flow == 1..Len(flows)

\* flow g writes the session: to the other flows the session is no longer
\* what it was at their click plus their own writes
Written(fs, g) ==
  [i \in DOMAIN fs |-> IF i # g THEN [fs[i] EXCEPT !.pre = Null] ELSE fs[i]]

\* no other flow has written the session since the click of flow f
Alone(f) == ~IsNull(flows[f].pre)

\* the buttons are on the map page; a session has MaxFlows clicks on them
CanStart == showMap /\ Len(flows) < MaxFlows

\* the kind of answer a request got
GeoShape(res) ==
  IF res.status = "error" THEN "error"
  ELSE IF res.data = <<>> THEN "none" ELSE "hit"

RouteShape(res) ==
  IF res.status = "error" THEN "error"
  ELSE IF \A k \in {"fastest", "safest"} :
            Has(res.data, k) /\ ~IsNull(res.data[k])
       THEN "complete" ELSE "malformed"

PanicShape(res) ==
  IF res.status = "error" THEN "error"
  ELSE IF IsNull(res.data) \/ ~Has(res.data, "safe_zones") THEN "missing"
  ELSE IF res.data.safe_zones = <<>> THEN "empty" ELSE "zones"

-----------------------------------------------------------------------------
\* the state cells of App as useState creates them, before any request
InitApp ==
  /\ showMap = FALSE
  /\ cities = <<>>
  /\ citiesLoaded = FALSE
  /\ city = "bengaluru"
  /\ srcQuery = ""
  /\ dstQuery = ""
  /\ srcCoords = Null
  /\ dstCoords = Null
  /\ fastest = Null
  /\ safest = Null
  /\ activeTab = "safest"
  /\ safeZones = <<>>
  /\ reports = <<>>
  /\ flows = <<>>
  /\ lastRoute = [flow |-> 0, params |-> Null, data |-> Null]
  /\ edits = 0
  /\ viewport = Null
  /\ cityLoad = [got |-> "", alert |-> ""]
  /\ lastPanic = [flow |-> 0, params |-> Null, data |-> Null]

Init == InitApp /\ call = Null

-----------------------------------------------------------------------------
(* The page: mounting, the landing page, the inputs *)

\* the end of loadCities: the catch block writes to the console and shows
\* no alert
CitiesCaught(res) == [got |-> res.status, alert |-> ""]

\* loadCities: the answer of GET /cities, or its failure (logged only)
loadCities ==
  /\ ~citiesLoaded
  /\ citiesLoaded' = TRUE
  /\ \E res \in {[status |-> "error"], [status |-> "ok", data |-> [other |-> TRUE]],
                 [status |-> "ok", data |-> [cities |-> CityList]]} :
       /\ cities' = IF res.status = "ok"
                    THEN (IF Has(res.data, "cities") THEN res.data.cities ELSE <<>>)
                    ELSE cities
       /\ cityLoad' = CitiesCaught(res)
  /\ UNCHANGED <<viewport, lastPanic, call>>
  /\ UNCHANGED <<showMap, city, srcQuery, dstQuery, srcCoords, dstCoords,
                 fastest, safest, activeTab, safeZones, reports, flows,
                 lastRoute, edits>>

\* the coordinates MapBounds takes from a route: fastest?.coords?.length > 0
CoordsOf(route) ==
  IF Has(route, "coords") /\ Len(route.coords) > 0 THEN route.coords ELSE <<>>

\* variant of MapBounds that goes back to the first view of the map when
\* there is nothing to fit
MapBounds_resets(fast, safe, view, by) ==
  LET coords == CoordsOf(fast) \o CoordsOf(safe) IN
    IF Len(coords) > 0
    THEN [coords |-> coords, padding |-> <<40, 40>>, flow |-> by]
    ELSE Null

\* the effect of MapBounds, run when fastest or safest is a new object (by
\* is the flow that stored it, 0 for the mount of the map): the viewport
\* after it, given the viewport before it
MapBounds(fast, safe, view, by) ==
  LET coords == CoordsOf(fast) \o CoordsOf(safe) IN
    IF Len(coords) > 0
    THEN [coords |-> coords, padding |-> <<40, 40>>, flow |-> by]
    ELSE view

\* the "Go to Map" button of the landing page: the map and MapBounds mount
onStart ==
  /\ ~showMap
  /\ showMap' = TRUE
  /\ viewport' = MapBounds(fastest, safest, viewport, 0)
  /\ UNCHANGED <<cityLoad, lastPanic, call>>
  /\ UNCHANGED <<cities, citiesLoaded, city, srcQuery, dstQuery, srcCoords,
                 dstCoords, fastest, safest, activeTab, safeZones, reports,
                 flows, lastRoute, edits>>

\* the city selector offers the loaded cities
setCity ==
  /\ showMap
  /\ edits < MaxEdits
  /\ edits' = edits + 1
  /\ \E i \in DOMAIN cities : cities[i] # city /\ city' = cities[i]
  /\ UNCHANGED aside
  /\ UNCHANGED <<showMap, cities, citiesLoaded, srcQuery, dstQuery, srcCoords,
                 dstCoords, fastest, safest, activeTab, safeZones, reports,
                 flows, lastRoute>>

setSrcQuery ==
  /\ showMap
  /\ edits < MaxEdits
  /\ edits' = edits + 1
  /\ \E q \in SrcQueries : q # srcQuery /\ srcQuery' = q
  /\ UNCHANGED aside
  /\ UNCHANGED <<showMap, cities, citiesLoaded, city, dstQuery, srcCoords,
                 dstCoords, fastest, safest, activeTab, safeZones, reports,
                 flows, lastRoute>>

setDstQuery ==
  /\ showMap
  /\ edits < MaxEdits
  /\ edits' = edits + 1
  /\ \E q \in DstQueries : q # dstQuery /\ dstQuery' = q
  /\ UNCHANGED aside
  /\ UNCHANGED <<showMap, cities, citiesLoaded, city, srcQuery, srcCoords,
                 dstCoords, fastest, safest, activeTab, safeZones, reports,
                 flows, lastRoute>>

\* the two tabs exist only in the route details panel
setActiveTab ==
  /\ showMap
  /\ edits < MaxEdits
  /\ edits' = edits + 1
  /\ ~IsNull(fastest) \/ ~IsNull(safest)
  /\ \E t \in {"safest", "fastest"} : t # activeTab /\ activeTab' = t
  /\ UNCHANGED aside
  /\ UNCHANGED <<showMap, cities, citiesLoaded, city, srcQuery, dstQuery,
                 srcCoords, dstCoords, fastest, safest, safeZones, reports,
                 flows, lastRoute>>

-----------------------------------------------------------------------------
(* fetchRoutes *)

\* geocodeLocation up to its request, for a query that is not empty
SendGeo(fl, role) ==
  [fl EXCEPT !.pc = IF role = "src" THEN "geoSrc" ELSE "geoDst",
             !.request = [q |-> <<IF role = "src" THEN fl.closure.srcQuery
                                  ELSE fl.closure.dstQuery,
                                  fl.closure.city, "India">>,
                          format |-> "json", limit |-> 1],
             !.sent = @ \cup {IF role = "src" THEN "geocode-src"
                              ELSE "geocode-dst"}]

\* what geocodeLocation returns once the service has answered or failed
geocodeLocation(res) ==
  IF res.status = "ok" THEN GeoResult(res.data) ELSE Null

\* the outcomes of a geocode request: the service fails, finds nothing,
\* or sends the first match (limit=1) for the query and city it was asked
GeoResponses(request) ==
  { [status |-> "error"], [status |-> "ok", data |-> <<>>],
    [status |-> "ok", data |-> <<FirstMatch(request.q[1], request.q[2])>>] }

\* alert("Invalid source or destination"); return
Invalid(fl) == Return(fl, "Invalid source or destination", FALSE)

\* geocodeLocation(dstQuery, city) with the source already decided: an
\* empty query returns null without a request, and !dst ends the handler
AwaitDst(fl) ==
  IF fl.closure.dstQuery # "" THEN SendGeo(fl, "dst") ELSE Invalid(fl)

\* the click on "Get Routes": runs until the first remote call;
\* geocodeLocation(srcQuery, city) returns null without a request for an
\* empty query, and the handler goes on to the destination
fetchRoutes_start ==
  /\ flows' = Append(flows,
                IF srcQuery # "" THEN SendGeo(NewFlow("route"), "src")
                ELSE AwaitDst(NewFlow("route")))
  /\ UNCHANGED aside
  /\ UNCHANGED <<ui, srcCoords, dstCoords, fastest, safest, safeZones,
                 reports, lastRoute>>

fetchRoutes == CanStart /\ fetchRoutes_start

\* the source geocode has answered
fetchRoutes_src(f) ==
  /\ flows[f].kind = "route" /\ flows[f].pc = "geoSrc"
  /\ \E res \in GeoResponses(flows[f].request) :
       flows' = [flows EXCEPT
                   ![f] = AwaitDst([@ EXCEPT !.src = geocodeLocation(res),
                                             !.got = GeoShape(res)])]
  /\ UNCHANGED aside
  /\ UNCHANGED <<ui, srcCoords, dstCoords, fastest, safest, safeZones,
                 reports, lastRoute>>

\* !src || !dst
Unresolved(fl) == IsNull(fl.src) \/ IsNull(fl.dst)

\* variant of CoordsAfterDst that stores whichever location was resolved
CoordsAfterDst_either(fl) ==
  [srcCoords |-> IF IsNull(fl.src) THEN srcCoords ELSE fl.src,
   dstCoords |-> IF IsNull(fl.dst) THEN dstCoords ELSE fl.dst]

\* srcCoords and dstCoords once both geocodes are in: setSrcCoords(src) and
\* setDstCoords(dst) are reached only when both are resolved
CoordsAfterDst(fl) ==
  IF Unresolved(fl)
  THEN [srcCoords |-> srcCoords, dstCoords |-> dstCoords]
  ELSE [srcCoords |-> fl.src, dstCoords |-> fl.dst]

\* variant of RouteParams with source and destination exchanged
RouteParams_swapped(fl) ==
  [city |-> fl.closure.city, src_lat |-> fl.dst.lat, src_lon |-> fl.dst.lon,
   dst_lat |-> fl.src.lat, dst_lon |-> fl.src.lon]

\* the params of GET /route
RouteParams(fl) ==
  [city |-> fl.closure.city, src_lat |-> fl.src.lat, src_lon |-> fl.src.lon,
   dst_lat |-> fl.dst.lat, dst_lon |-> fl.dst.lon]

\* the destination geocode has answered: validate, store both locations,
\* send the route request
fetchRoutes_dst(f) ==
  /\ flows[f].kind = "route" /\ flows[f].pc = "geoDst"
  /\ \E res \in GeoResponses(flows[f].request) :
       LET fl == [flows[f] EXCEPT !.dst = geocodeLocation(res),
                                  !.got = GeoShape(res)] IN
         /\ srcCoords' = CoordsAfterDst(fl).srcCoords
         /\ dstCoords' = CoordsAfterDst(fl).dstCoords
         /\ flows' = IF Unresolved(fl)
                     THEN [flows EXCEPT ![f] = Invalid(fl)]
                     ELSE Written([flows EXCEPT
                            ![f] = [fl EXCEPT !.pc = "route",
                                              !.request = RouteParams(fl),
                                              !.sent = @ \cup {"route"}]], f)
  /\ UNCHANGED aside
  /\ UNCHANGED <<ui, fastest, safest, safeZones, reports, lastRoute>>

RouteResponses ==
  {[status |-> "error"]} \cup { [status |-> "ok", data |-> d] : d \in RouteData }

\* variant of RouteOk in which only res.data.fastest.coords is read
RouteOk_fastestOnly(res) ==
  /\ res.status = "ok"
  /\ Has(res.data, "fastest") /\ ~IsNull(res.data.fastest)

\* the try block runs to its end: the request succeeded and neither
\* res.data.fastest.coords nor res.data.safest.coords throws
RouteOk(res) ==
  /\ res.status = "ok"
  /\ Has(res.data, "fastest") /\ ~IsNull(res.data.fastest)
  /\ Has(res.data, "safest") /\ ~IsNull(res.data.safest)

\* variant of RoutesAfter without the call of setSafest
RoutesAfter_noSafest(res) ==
  IF RouteOk(res)
  THEN [fastest |-> WithLabel(Get(res.data, "fastest")),
        safest |-> safest, safeZones |-> <<>>]
  ELSE [fastest |-> fastest, safest |-> safest, safeZones |-> safeZones]

\* variant of RoutesAfter whose catch block resets both routes
RoutesAfter_catchClears(res) ==
  IF RouteOk(res)
  THEN [fastest |-> WithLabel(Get(res.data, "fastest")),
        safest |-> WithLabel(Get(res.data, "safest")), safeZones |-> <<>>]
  ELSE [fastest |-> Null, safest |-> Null, safeZones |-> safeZones]

\* fastest, safest and safeZones once the route request is over:
\* setFastest, setSafest and setSafeZones([]) at the end of the try block,
\* nothing in the catch block
RoutesAfter(res) ==
  IF RouteOk(res)
  THEN [fastest |-> WithLabel(Get(res.data, "fastest")),
        safest |-> WithLabel(Get(res.data, "safest")), safeZones |-> <<>>]
  ELSE [fastest |-> fastest, safest |-> safest, safeZones |-> safeZones]

\* the route request has answered
fetchRoutes_route(f) ==
  /\ flows[f].kind = "route" /\ flows[f].pc = "route"
  /\ \E res \in RouteResponses :
       LET fl == [flows[f] EXCEPT !.got = RouteShape(res)] IN
         /\ fastest' = RoutesAfter(res).fastest
         /\ safest' = RoutesAfter(res).safest
         /\ safeZones' = RoutesAfter(res).safeZones
         /\ lastRoute' = IF RouteOk(res)
                         THEN [flow |-> f, params |-> fl.request,
                               data |-> res.data]
                         ELSE lastRoute
         /\ viewport' = IF RouteOk(res)
                        THEN MapBounds(RoutesAfter(res).fastest,
                                       RoutesAfter(res).safest, viewport, f)
                        ELSE viewport
         /\ flows' = IF RouteOk(res)
                     THEN Written([flows EXCEPT ![f] = Return(fl, "", TRUE)], f)
                     ELSE [flows EXCEPT
                             ![f] = Return(fl, "Error fetching routes", FALSE)]
  /\ UNCHANGED <<cityLoad, lastPanic, call>>
  /\ UNCHANGED <<ui, srcCoords, dstCoords, reports>>

-----------------------------------------------------------------------------
(* triggerPanic *)

PanicParams(fl) ==
  [city |-> fl.closure.city, lat |-> fl.closure.srcCoords.lat,
   lon |-> fl.closure.srcCoords.lon]

\* variant of PanicStart without the test of srcCoords
PanicStart_noGuard(fl) ==
  [fl EXCEPT !.pc = "panic",
             !.request = [city |-> fl.closure.city,
                          lat |-> Get(fl.closure.srcCoords, "lat"),
                          lon |-> Get(fl.closure.srcCoords, "lon")],
             !.sent = {"panic"}]

\* triggerPanic up to its request: without a source it only alerts
PanicStart(fl) ==
  IF IsNull(fl.closure.srcCoords)
  THEN Return(fl, "Set a source first!", FALSE)
  ELSE [fl EXCEPT !.pc = "panic", !.request = PanicParams(fl),
                  !.sent = {"panic"}]

\* the click on "SOS"
triggerPanic_start ==
  /\ flows' = Append(flows, PanicStart(NewFlow("panic")))
  /\ UNCHANGED aside
  /\ UNCHANGED <<ui, srcCoords, dstCoords, fastest, safest, safeZones,
                 reports, lastRoute>>

triggerPanic == CanStart /\ triggerPanic_start

PanicResponses ==
  {[status |-> "error"]} \cup { [status |-> "ok", data |-> d] : d \in PanicData }

\* res.data && res.data.safe_zones: an array, even an empty one, is truthy
HasZones(res) == ~IsNull(res.data) /\ Has(res.data, "safe_zones")

\* the safe-zone request has answered
triggerPanic_panic(f) ==
  /\ flows[f].kind = "panic" /\ flows[f].pc = "panic"
  /\ \E res \in PanicResponses :
       LET fl == [flows[f] EXCEPT !.got = PanicShape(res)] IN
         IF res.status = "ok" /\ HasZones(res)
         THEN /\ safeZones' = res.data.safe_zones
              /\ lastPanic' = [flow |-> f, params |-> fl.request,
                                data |-> res.data]
              /\ flows' = Written([flows EXCEPT ![f] = Return(fl, "", TRUE)], f)
         ELSE /\ flows' = [flows EXCEPT
                             ![f] = Return(fl, IF res.status = "ok"
                                               THEN "No safe locations found"
                                               ELSE "Panic API failed", FALSE)]
              /\ UNCHANGED <<safeZones, lastPanic>>
  /\ UNCHANGED <<viewport, cityLoad, call>>
  /\ UNCHANGED <<ui, srcCoords, dstCoords, fastest, safest, reports,
                 lastRoute>>

-----------------------------------------------------------------------------
(* reportUnsafe *)

ReportParams(fl) ==
  [lat |-> fl.closure.dstCoords.lat, lon |-> fl.closure.dstCoords.lon,
   note |-> "Unsafe area"]

\* reportUnsafe up to its request: without a destination it only alerts
ReportStart(fl) ==
  IF IsNull(fl.closure.dstCoords)
  THEN Return(fl, "Set a destination first!", FALSE)
  ELSE [fl EXCEPT !.pc = "report", !.request = ReportParams(fl),
                  !.sent = {"report"}]

\* the click on the report button
reportUnsafe_start ==
  /\ flows' = Append(flows, ReportStart(NewFlow("report")))
  /\ UNCHANGED aside
  /\ UNCHANGED <<ui, srcCoords, dstCoords, fastest, safest, safeZones,
                 reports, lastRoute>>

reportUnsafe == CanStart /\ reportUnsafe_start

\* variant of reportUnsafe_report that also resets the destination once the
\* report is acknowledged
reportUnsafe_report_resetsDst(f) ==
  /\ flows[f].kind = "report" /\ flows[f].pc = "report"
  /\ \E status \in {"ok", "error"} :
       LET fl == [flows[f] EXCEPT !.got = IF status = "ok" THEN "ack"
                                          ELSE "error"] IN
         IF status = "ok"
         THEN /\ reports' = Append(fl.closure.reports,
                                   [lat |-> fl.closure.dstCoords.lat,
                                    lon |-> fl.closure.dstCoords.lon])
              /\ dstCoords' = Null
              /\ flows' = Written([flows EXCEPT
                            ![f] = Return(fl, "Unsafe spot reported!", TRUE)], f)
         ELSE /\ flows' = [flows EXCEPT
                             ![f] = Return(fl, "Report API failed", FALSE)]
              /\ UNCHANGED <<reports, dstCoords>>
  /\ UNCHANGED aside
  /\ UNCHANGED <<ui, srcCoords, fastest, safest, safeZones, lastRoute>>

\* the submission has answered: the new list is built from the reports and
\* the destination of the render the button was clicked in
reportUnsafe_report(f) ==
  /\ flows[f].kind = "report" /\ flows[f].pc = "report"
  /\ \E status \in {"ok", "error"} :
       LET fl == [flows[f] EXCEPT !.got = IF status = "ok" THEN "ack"
                                          ELSE "error"] IN
         IF status = "ok"
         THEN /\ reports' = Append(fl.closure.reports,
                                   [lat |-> fl.closure.dstCoords.lat,
                                    lon |-> fl.closure.dstCoords.lon])
              /\ flows' = Written([flows EXCEPT
                            ![f] = Return(fl, "Unsafe spot reported!", TRUE)], f)
         ELSE /\ flows' = [flows EXCEPT
                             ![f] = Return(fl, "Report API failed", FALSE)]
              /\ UNCHANGED reports
  /\ UNCHANGED aside
  /\ UNCHANGED <<ui, srcCoords, dstCoords, fastest, safest, safeZones,
                 lastRoute>>

-----------------------------------------------------------------------------
Next ==
  \/ loadCities
  \/ onStart
  \/ setCity
  \/ setSrcQuery
  \/ setDstQuery
  \/ setActiveTab
  \/ fetchRoutes
  \/ \E f \in Flow : fetchRoutes_src(f)
  \/ \E f \in Flow : fetchRoutes_dst(f)
  \/ \E f \in Flow : fetchRoutes_route(f)
  \/ triggerPanic
  \/ \E f \in Flow : triggerPanic_panic(f)
  \/ reportUnsafe
  \/ \E f \in Flow : reportUnsafe_report(f)

Spec == Init /\ [][Next]_vars

\* the same session with one more click on the buttons
CanStartLong == showMap /\ Len(flows) < MaxFlows + 1

NextLong ==
  \/ loadCities
  \/ onStart
  \/ setCity
  \/ setSrcQuery
  \/ setDstQuery
  \/ setActiveTab
  \/ CanStartLong /\ fetchRoutes_start
  \/ \E f \in Flow : fetchRoutes_src(f)
  \/ \E f \in Flow : fetchRoutes_dst(f)
  \/ \E f \in Flow : fetchRoutes_route(f)
  \/ CanStartLong /\ triggerPanic_start
  \/ \E f \in Flow : triggerPanic_panic(f)
  \/ CanStartLong /\ reportUnsafe_start
  \/ \E f \in Flow : reportUnsafe_report(f)

SpecLong == Init /\ [][NextLong]_vars

\* a session of reports: the user looks up one route and then reports the
\* destination up to MaxReports times; the city list has not arrived
Clicks(kind) == Cardinality({f \in Flow : flows[f].kind = kind})

NextReports ==
  \/ onStart
  \/ setSrcQuery
  \/ setDstQuery
  \/ showMap /\ Clicks("route") < 1 /\ fetchRoutes_start
  \/ \E f \in Flow : fetchRoutes_src(f)
  \/ \E f \in Flow : fetchRoutes_dst(f)
  \/ \E f \in Flow : fetchRoutes_route(f)
  \/ showMap /\ Clicks("report") < MaxReports /\ reportUnsafe_start
  \/ \E f \in Flow : reportUnsafe_report(f)

SpecReports == Init /\ [][NextReports]_vars

\* the session state apart from the inputs
session == <<srcCoords, dstCoords, fastest, safest, safeZones, reports>>

-----------------------------------------------------------------------------
(* The helpers on their own *)

\* a JavaScript string as getEmergencyNumber sees it: its characters
Str(chars) == [str |-> chars]

\* a value in a condition: undefined, null and the empty string are falsy
Truthy(v) == Has(v, "str") /\ v.str # <<>>

UpperCase ==
  <<"A","B","C","D","E","F","G","H","I","J","K","L","M",
    "N","O","P","Q","R","S","T","U","V","W","X","Y","Z">>

LowerCase ==
  <<"a","b","c","d","e","f","g","h","i","j","k","l","m",
    "n","o","p","q","r","s","t","u","v","w","x","y","z">>

\* String.prototype.toLowerCase
toLowerCase(v) ==
  Str([i \in 1..Len(v.str) |->
         IF \E k \in 1..26 : UpperCase[k] = v.str[i]
         THEN LowerCase[CHOOSE k \in 1..26 : UpperCase[k] = v.str[i]]
         ELSE v.str[i]])

\* String.prototype.includes
includes(v, sub) ==
  \E i \in 1..(Len(v.str) - Len(sub.str) + 1) :
    SubSeq(v.str, i, i + Len(sub.str) - 1) = sub.str

\* the texts of getEmergencyNumber
WordPolice == <<"p","o","l","i","c","e">>

WordHospital == <<"h","o","s","p","i","t","a","l">>

WordFire == <<"f","i","r","e">>

Number100 == Str(<<"1","0","0">>)

Number108 == Str(<<"1","0","8">>)

Number101 == Str(<<"1","0","1">>)

Number112 == Str(<<"1","1","2">>)

\* variant of getEmergencyNumber that looks for a hospital first
getEmergencyNumber_hospitalFirst(zone) ==
  IF Truthy(Get(zone, "phone")) THEN zone.phone
  ELSE IF ~Truthy(Get(zone, "type")) THEN Number112
  ELSE LET t == toLowerCase(zone.type) IN
         IF includes(t, Str(WordHospital)) THEN Number108
         ELSE IF includes(t, Str(WordPolice)) THEN Number100
         ELSE IF includes(t, Str(WordFire)) THEN Number101
         ELSE Number112

getEmergencyNumber(zone) ==
  IF Truthy(Get(zone, "phone")) THEN zone.phone
  ELSE IF ~Truthy(Get(zone, "type")) THEN Number112
  ELSE LET t == toLowerCase(zone.type) IN
         IF includes(t, Str(WordPolice)) THEN Number100
         ELSE IF includes(t, Str(WordHospital)) THEN Number108
         ELSE IF includes(t, Str(WordFire)) THEN Number101
         ELSE Number112

\* the phone and the type a safe zone of GET /panic can carry: a field that
\* is missing reads as undefined
Phones == {Undefined, Null, Str(<<>>), Str(<<"5","5","5">>)}

TypePolice == Str(<<"p","o","l","i","c","e">>)

PoliceStation ==
  Str(<<"P","o","l","i","c","e"," ","S","t","a","t","i","o","n">>)

TypeHospital == Str(<<"H","O","S","P","I","T","A","L">>)

FireStation == Str(<<"F","i","r","e"," ","S","t","a","t","i","o","n">>)

FireHospital == Str(<<"F","i","r","e"," ","H","o","s","p","i","t","a","l">>)

HospitalPolicePost ==
  Str(<<"H","o","s","p","i","t","a","l"," ",
        "P","o","l","i","c","e"," ","P","o","s","t">>)

CommunityCenter ==
  Str(<<"C","o","m","m","u","n","i","t","y"," ","C","e","n","t","e","r">>)

Types ==
  {Undefined, Null, Str(<<>>), TypePolice, PoliceStation, TypeHospital,
   FireStation, FireHospital, HospitalPolicePost, CommunityCenter}

\* the calls of the two helpers: every score, and every zone
Calls ==
  {[fn |-> "getSafetyLabel", score |-> sc] : sc \in 0..MaxScore}
    \cup {[fn |-> "getEmergencyNumber",
           zone |-> [lat |-> 1296, lon |-> 7763, phone |-> p, type |-> t]] :
             p \in Phones, t \in Types}

InitHelpers == InitApp /\ call \in Calls

Returns(value) ==
  /\ call' = [k \in DOMAIN call \cup {"out"} |->
                IF k = "out" THEN value ELSE call[k]]
  /\ UNCHANGED <<ui, session, viewport, cityLoad, flows, lastRoute, lastPanic>>

getSafetyLabel_call ==
  /\ call.fn = "getSafetyLabel" /\ ~Has(call, "out")
  /\ Returns(getSafetyLabel(call.score))

getEmergencyNumber_call ==
  /\ call.fn = "getEmergencyNumber" /\ ~Has(call, "out")
  /\ Returns(getEmergencyNumber(call.zone))

NextHelpers == getSafetyLabel_call \/ getEmergencyNumber_call

SpecHelpers == InitHelpers /\ [][NextHelpers]_vars

-----------------------------------------------------------------------------
(* Vocabulary of the properties *)

\* flow f is issued by this step
Started(f) == Len(flows') = Len(flows) + 1 /\ f = Len(flows')

\* flow f receives the answer of its pending request in this step
Answered(f) == f \in Flow /\ flows[f].pc # "done" /\ flows'[f].pc # flows[f].pc

\* the handler of flow f returns in this step
Returned(f) == (Started(f) \/ Answered(f)) /\ flows'[f].pc = "done"

\* a stored route without the label added to it
Unlabelled(r) == [k \in DOMAIN r \ {"safety_label"} |-> r[k]]

\* the bucketing of section 4.3: 75 and up safe, 40 to 74 moderate
SpecLabel(s) ==
  CASE s >= 75 -> "safe"
    [] s >= 40 /\ s < 75 -> "moderate"
    [] s < 40 -> "unsafe"

StoredScore(r) == IF "safety_score" \in DOMAIN r THEN r.safety_score ELSE 0

InvalidAlert == "Invalid source or destination"

RouteErrorAlert == "Error fetching routes"

-----------------------------------------------------------------------------
(* Supersession *)

\* C1: when get-routes action a was issued before action b, the result of
\* b has landed and the route response of a arrives after it, that late
\* response does not write fastest or safest, which stay b's result.
C1_LateResponseDiscarded ==
  [][\A a \in Flow : \A b \in Flow :
       ( /\ a < b
         /\ flows[a].kind = "route" /\ flows[a].pc = "route"
         /\ flows[b].kind = "route" /\ flows[b].ok
         /\ flows'[a].pc = "done" )
       => (fastest' = fastest /\ safest' = safest)]_vars

-----------------------------------------------------------------------------
(* The two routes *)

\* C2: fastest and safest are both absent or both present, and when
\* present they are the two routes of one and the same route response,
\* the last one that was stored.
C2_RoutesSetTogether ==
  /\ IsNull(fastest) <=> IsNull(safest)
  /\ IsNull(fastest) => lastRoute.flow = 0
  /\ ~IsNull(fastest) =>
       /\ lastRoute.flow \in Flow
       /\ flows[lastRoute.flow].kind = "route" /\ flows[lastRoute.flow].ok
       /\ Unlabelled(fastest) = Get(lastRoute.data, "fastest")
       /\ Unlabelled(safest) = Get(lastRoute.data, "safest")

\* a second route response has replaced both routes of the first
C2_Witness ==
  /\ Len(flows) = 2
  /\ flows[1].kind = "route" /\ flows[1].ok
  /\ lastRoute.flow = 2
  /\ ~IsNull(fastest) /\ ~IsNull(safest)
  /\ Unlabelled(fastest) = RouteNoScore

\* C3: a route response that lacks fastest or safest ends the flow with the
\* route error alert and leaves fastest, safest and safeZones as they were,
\* which is as they were at the click when no other flow wrote since.
C3_MalformedIsFailure ==
  [][\A f \in Flow :
       ( /\ flows[f].kind = "route" /\ flows[f].pc = "route"
         /\ flows'[f].pc = "done" /\ flows'[f].got = "malformed" )
       => /\ flows'[f].alert = RouteErrorAlert
          /\ UNCHANGED <<fastest, safest, safeZones>>
          /\ Alone(f) =>
               /\ fastest' = flows[f].pre.fastest
               /\ safest' = flows[f].pre.safest
               /\ safeZones' = flows[f].pre.safeZones]_vars

\* a malformed response has arrived while routes of an earlier response
\* were stored, and they are still there
C3_Witness ==
  /\ Len(flows) = 2
  /\ flows[1].kind = "route" /\ flows[1].ok
  /\ flows[2].kind = "route" /\ flows[2].got = "malformed"
  /\ flows[2].alert = RouteErrorAlert
  /\ lastRoute.flow = 1 /\ ~IsNull(fastest) /\ ~IsNull(safest)

\* C4: a get-routes action that ends without a complete route response
\* (a geocode or the route request failed) shows an alert and leaves
\* fastest and safest as they were, which is as they were at the click when
\* no other flow wrote since; and no step of any flow changes city,
\* srcQuery or dstQuery.
C4_LastKnownGood ==
  [][/\ \A f \in 1..Len(flows') :
          ( /\ Returned(f) /\ flows'[f].kind = "route"
            /\ flows'[f].got # "complete" )
          => /\ flows'[f].alert \in {InvalidAlert, RouteErrorAlert}
             /\ UNCHANGED <<fastest, safest>>
             /\ (Answered(f) /\ Alone(f)) =>
                  /\ fastest' = flows[f].pre.fastest
                  /\ safest' = flows[f].pre.safest
     /\ (\E f \in 1..Len(flows') : Started(f) \/ Answered(f))
          => UNCHANGED <<city, srcQuery, dstQuery>>]_vars

\* the route request of a second action has failed: the routes of the
\* first are still shown, and the source input is what the user typed
\* after the click
C4_Witness ==
  /\ Len(flows) = 2
  /\ flows[1].kind = "route" /\ flows[1].ok
  /\ flows[2].kind = "route" /\ flows[2].got = "error"
  /\ flows[2].alert = RouteErrorAlert
  /\ lastRoute.flow = 1 /\ ~IsNull(fastest) /\ ~IsNull(safest)
  /\ srcQuery = ""

\* C5: after a get-routes action whose geocodes succeed and whose route
\* request fails, srcCoords, dstCoords, fastest, safest and safeZones are
\* as they were at the click (no other flow having written since).
C5_FailedRouteRestoresAll ==
  [][\A f \in Flow :
       ( /\ flows[f].kind = "route" /\ flows[f].pc = "route"
         /\ flows'[f].pc = "done" /\ flows'[f].got # "complete"
         /\ Alone(f) )
       => Snapshot' = flows[f].pre]_vars

-----------------------------------------------------------------------------
(* Validation and geocoding *)

\* C6: a get-routes action issued with an empty source or destination
\* query ends at once with an alert, sends no request at all and leaves
\* the session state unchanged.
C6_EmptyQueryIsLocal ==
  [][\A f \in 1..Len(flows') :
       ( /\ Started(f) /\ flows'[f].kind = "route"
         /\ (srcQuery = "" \/ dstQuery = "") )
       => /\ flows'[f].pc = "done"
          /\ flows'[f].alert # ""
          /\ flows'[f].sent = {}
          /\ UNCHANGED session]_vars

\* C7: a flow sends its route request only with both of its geocode
\* requests sent and answered by a match, and while the request is pending
\* its params are the city of the click and the coordinates of the two
\* matches of this flow.
C7_RouteRequestAfterBothGeocodes ==
  \A f \in Flow :
    flows[f].kind = "route" =>
      /\ "route" \in flows[f].sent =>
           {"geocode-src", "geocode-dst"} \subseteq flows[f].sent
      /\ flows[f].pc \in {"geoSrc", "geoDst"} => "route" \notin flows[f].sent
      /\ flows[f].pc = "route" =>
           /\ flows[f].got = "hit"
           /\ ~IsNull(flows[f].src) /\ ~IsNull(flows[f].dst)
           /\ flows[f].request =
                [city |-> flows[f].closure.city,
                 src_lat |-> flows[f].src.lat, src_lon |-> flows[f].src.lon,
                 dst_lat |-> flows[f].dst.lat, dst_lon |-> flows[f].dst.lon]

\* a route request is pending whose source is not the source an earlier
\* action left in the session, and whose destination is another place
C7_Witness ==
  \E f \in Flow :
    /\ flows[f].kind = "route" /\ flows[f].pc = "route"
    /\ Alone(f)
    /\ ~IsNull(flows[f].pre.srcCoords)
    /\ flows[f].pre.srcCoords # flows[f].src
    /\ flows[f].src.lat # flows[f].dst.lat
    /\ flows[f].request.src_lat = flows[f].src.lat

\* C8: when a geocode of a get-routes action fails (no match or a service
\* failure), or the source was not resolved, the step changes neither
\* srcCoords nor dstCoords and sends no route request; the flow ends with
\* the invalid-location alert at the latest when the destination geocode is
\* in, and then both locations are as they were at the click (no other flow
\* having written since).
C8_PartialResolutionDiscarded ==
  [][\A f \in Flow :
       ( /\ flows[f].kind = "route" /\ Answered(f)
         /\ flows[f].pc \in {"geoSrc", "geoDst"}
         /\ \/ flows'[f].got \in {"error", "none"}
            \/ flows[f].pc = "geoDst" /\ IsNull(flows[f].src) )
       => /\ UNCHANGED <<srcCoords, dstCoords>>
          /\ flows'[f].pc # "route" /\ "route" \notin flows'[f].sent
          /\ flows[f].pc = "geoDst" => flows'[f].pc = "done"
          /\ flows'[f].pc = "done" =>
               /\ flows'[f].alert = InvalidAlert
               /\ Alone(f) =>
                    /\ srcCoords' = flows[f].pre.srcCoords
                    /\ dstCoords' = flows[f].pre.dstCoords]_vars

\* the destination was resolved and the source was not: the action has
\* ended with the alert and neither location is set
C8_Witness ==
  /\ Len(flows) = 1
  /\ flows[1].kind = "route" /\ flows[1].pc = "done"
  /\ flows[1].sent = {"geocode-src", "geocode-dst"}
  /\ flows[1].got = "hit"
  /\ flows[1].alert = InvalidAlert
  /\ IsNull(srcCoords) /\ IsNull(dstCoords)

-----------------------------------------------------------------------------
(* The successful route response *)

\* C9: the step that receives a complete route response stores both routes
\* of that response, each with the label of its own score (0 for a missing
\* score), and leaves safeZones empty.
C9_SuccessSetsAll ==
  [][\A f \in Flow :
       ( /\ flows[f].kind = "route" /\ flows[f].pc = "route"
         /\ flows'[f].pc = "done" /\ flows'[f].got = "complete" )
       => /\ lastRoute'.flow = f
          /\ Unlabelled(fastest') = Get(lastRoute'.data, "fastest")
          /\ Unlabelled(safest') = Get(lastRoute'.data, "safest")
          /\ fastest'.safety_label = SpecLabel(StoredScore(fastest'))
          /\ safest'.safety_label = SpecLabel(StoredScore(safest'))
          /\ safeZones' = <<>>]_vars

\* the answer 60/85 has arrived after a panic answer had put zones on the
\* map: the labels are moderate and safe, and the zones are gone
C9_Witness ==
  /\ Len(flows) = 2
  /\ flows[1].kind = "route" /\ flows[1].ok
  /\ flows[2].kind = "panic" /\ flows[2].got = "zones"
  /\ fastest = WithLabel(Route60) /\ fastest.safety_label = "moderate"
  /\ safest = WithLabel(Route85) /\ safest.safety_label = "safe"
  /\ safeZones = <<>>

-----------------------------------------------------------------------------
(* Panic and report without a location *)

\* C10: a panic action issued while srcCoords is absent ends at once with
\* its alert, sends no request and leaves the whole session state as it
\* is; so does a report action issued while dstCoords is absent.
C10_NoLocationNoRequest ==
  [][\A f \in 1..Len(flows') :
       Started(f) =>
         /\ (flows'[f].kind = "panic" /\ IsNull(srcCoords)) =>
              /\ flows'[f].pc = "done" /\ flows'[f].sent = {}
              /\ flows'[f].alert = "Set a source first!"
              /\ UNCHANGED <<session, ui, lastRoute>>
         /\ (flows'[f].kind = "report" /\ IsNull(dstCoords)) =>
              /\ flows'[f].pc = "done" /\ flows'[f].sent = {}
              /\ flows'[f].alert = "Set a destination first!"
              /\ UNCHANGED <<session, ui, lastRoute>>]_vars

\* both buttons have been used before any location was resolved
C10_Witness ==
  /\ Len(flows) = 2
  /\ flows[1].kind = "panic" /\ flows[1].alert = "Set a source first!"
  /\ flows[2].kind = "report" /\ flows[2].alert = "Set a destination first!"
  /\ IsNull(srcCoords) /\ IsNull(dstCoords)
  /\ safeZones = <<>> /\ reports = <<>>

-----------------------------------------------------------------------------
(* The safe-zone response *)

NoZonesAlert == "No safe locations found"

\* C11: the step that receives a safe-zone response with a non-empty list
\* makes safeZones exactly that list; the step that receives an empty or
\* a missing list shows the no-safe-locations alert and leaves safeZones
\* as it is.
C11_PanicResult ==
  [][\A f \in Flow :
       (flows[f].kind = "panic" /\ flows[f].pc = "panic" /\ Answered(f)) =>
         /\ flows'[f].got = "zones" =>
              /\ lastPanic'.flow = f
              /\ safeZones' = lastPanic'.data.safe_zones
         /\ flows'[f].got \in {"empty", "missing"} =>
              /\ flows'[f].alert = NoZonesAlert
              /\ safeZones' = safeZones]_vars

-----------------------------------------------------------------------------
(* Reports *)

IsPrefix(s, t) == Len(s) <= Len(t) /\ SubSeq(t, 1, Len(s)) = s

\* C12: in every step the value of reports before the step is a prefix of
\* its value after the step.
C12_ReportsAppendOnly == [][IsPrefix(reports, reports')]_vars

\* the report flows that were acknowledged
Acked == {f \in Flow : flows[f].kind = "report" /\ flows[f].got = "ack"}

\* C13: once no flow is pending, reports has one entry for every
\* acknowledged submission.
C13_NoReportLost ==
  (\A f \in Flow : flows[f].pc = "done") => Len(reports) = Cardinality(Acked)

-----------------------------------------------------------------------------
(* Field ownership *)

\* C14: a step of a panic flow changes none of fastest, safest, reports,
\* srcCoords, dstCoords, activeTab and the inputs; a step of a report flow
\* changes nothing of the page but reports; a step of a route flow changes
\* neither reports nor activeTab; and no step of any flow changes city,
\* srcQuery or dstQuery.
C14_FieldOwnership ==
  [][\A f \in 1..Len(flows') :
       (Started(f) \/ Answered(f)) =>
         /\ flows'[f].kind = "panic" =>
              UNCHANGED <<fastest, safest, reports, srcCoords, dstCoords,
                          activeTab, city, srcQuery, dstQuery>>
         /\ flows'[f].kind = "report" =>
              UNCHANGED <<showMap, cities, city, srcQuery, dstQuery, srcCoords,
                          dstCoords, fastest, safest, activeTab, safeZones,
                          viewport>>
         /\ flows'[f].kind = "route" => UNCHANGED <<reports, activeTab>>
         /\ UNCHANGED <<city, srcQuery, dstQuery>>]_vars

\* a panic request has failed while routes were shown with the fastest tab
\* open: the routes, the tab, both locations and the inputs are still there
C14_Witness ==
  /\ Len(flows) = 2
  /\ flows[1].kind = "route" /\ flows[1].ok
  /\ flows[2].kind = "panic" /\ flows[2].got = "error"
  /\ flows[2].alert = "Panic API failed"
  /\ fastest = WithLabel(Route60) /\ safest = WithLabel(Route85)
  /\ activeTab = "fastest"
  /\ ~IsNull(srcCoords) /\ ~IsNull(dstCoords)
  /\ srcQuery = "Indiranagar" /\ dstQuery = "MG Road"

-----------------------------------------------------------------------------
(* The helpers *)

\* C15: getSafetyLabel returns for every score from 0 to MaxScore, and what
\* it returns is safe exactly for the scores of 75 and more, moderate
\* exactly for the scores from 40 to 74, unsafe exactly for the scores
\* below 40; so 75 is safe, 74 and 40 are moderate and 39 is unsafe.
C15_LabelBuckets ==
  call.fn = "getSafetyLabel" =>
    /\ ~Has(call, "out") => ENABLED getSafetyLabel_call
    /\ Has(call, "out") =>
         /\ call.out \in {"safe", "moderate", "unsafe"}
         /\ call.out = "safe" <=> call.score >= 75
         /\ call.out = "moderate" <=> (40 <= call.score /\ call.score < 75)
         /\ call.out = "unsafe" <=> call.score < 40
         /\ call.score = 75 => call.out = "safe"
         /\ call.score \in {74, 40} => call.out = "moderate"
         /\ call.score = 39 => call.out = "unsafe"

\* the call for the score 40 has returned moderate
C15_Witness ==
  /\ call.fn = "getSafetyLabel" /\ call.score = 40
  /\ Has(call, "out") /\ call.out = "moderate"

\* a value that is neither missing nor null
Present(v) == Has(v, "str")

\* the keywords each type of Types contains when case is ignored
KeywordsOf(type) ==
  CASE type \in {TypePolice, PoliceStation} -> {"police"}
    [] type = TypeHospital -> {"hospital"}
    [] type = FireStation -> {"fire"}
    [] type = FireHospital -> {"fire", "hospital"}
    [] type = HospitalPolicePost -> {"hospital", "police"}
    [] OTHER -> {}

\* the number by the type alone: police, then hospital, then fire
NumberByType(type) ==
  IF ~Present(type) THEN Number112
  ELSE IF "police" \in KeywordsOf(type) THEN Number100
  ELSE IF "hospital" \in KeywordsOf(type) THEN Number108
  ELSE IF "fire" \in KeywordsOf(type) THEN Number101
  ELSE Number112

\* C16, as stated: getEmergencyNumber returns a present phone verbatim
\* whatever the type is, and otherwise the number by the type.
C16_PresentPhoneVerbatim ==
  (call.fn = "getEmergencyNumber" /\ Has(call, "out")) =>
    call.out = IF Present(call.zone.phone) THEN call.zone.phone
               ELSE NumberByType(call.zone.type)

\* C16, amended: getEmergencyNumber returns for every zone; it returns a
\* present phone that is not the empty string verbatim whatever the type
\* is, and otherwise (no phone, or an empty one) 112 for an absent type,
\* else 100 for a type containing police, else 108 for one containing
\* hospital, else 101 for one containing fire, else 112, case ignored.
C16_EmergencyNumber ==
  call.fn = "getEmergencyNumber" =>
    /\ ~Has(call, "out") => ENABLED getEmergencyNumber_call
    /\ Has(call, "out") =>
         call.out = IF Present(call.zone.phone) /\ call.zone.phone # Str(<<>>)
                    THEN call.zone.phone
                    ELSE NumberByType(call.zone.type)

\* the call for a zone without a phone whose type names a hospital before
\* the police has returned 100
C16_Witness ==
  /\ call.fn = "getEmergencyNumber"
  /\ call.zone.phone = Undefined /\ call.zone.type = HospitalPolicePost
  /\ Has(call, "out") /\ call.out = Number100

-----------------------------------------------------------------------------
(* Safe zones and the source *)

\* C17: whenever safeZones is not empty it is the list of the last
\* safe-zone response that was stored, and the request of that response
\* was made for the place that srcCoords holds now.
C17_ZonesForCurrentSource ==
  safeZones # <<>> =>
    /\ lastPanic.flow \in Flow
    /\ safeZones = lastPanic.data.safe_zones
    /\ ~IsNull(srcCoords)
    /\ lastPanic.params.lat = srcCoords.lat
    /\ lastPanic.params.lon = srcCoords.lon

-----------------------------------------------------------------------------
(* The viewport *)

\* the coordinate sequence of a stored route
CoordsIn(route) == IF "coords" \in DOMAIN route THEN route.coords ELSE <<>>

\* C18: the step in which a route flow stores a complete response fits the
\* map to the coordinates of fastest followed by those of safest when one
\* of the two sequences is not empty, and leaves the viewport as it is when
\* both are empty or absent; no other step changes the viewport.
C18_ViewportFollowsRoutes ==
  [][IF \E f \in Flow : /\ flows[f].kind = "route" /\ flows[f].pc = "route"
                        /\ flows'[f].pc = "done" /\ flows'[f].got = "complete"
     THEN LET f == CHOOSE g \in Flow : flows[g].pc = "route" /\ flows'[g].pc = "done"
              all == CoordsIn(fastest') \o CoordsIn(safest')
          IN IF all # <<>>
             THEN /\ viewport'.coords = all
                  /\ viewport'.flow = f
             ELSE viewport' = viewport
     ELSE viewport' = viewport]_vars

\* the map was fitted to the routes of a first response, and a second
\* response whose routes have no coordinates has left it there
C18_Witness ==
  /\ Len(flows) = 2
  /\ flows[1].kind = "route" /\ flows[1].ok
  /\ flows[2].kind = "route" /\ flows[2].ok
  /\ lastRoute.flow = 2
  /\ CoordsIn(fastest) = <<>> /\ CoordsIn(safest) = <<>>
  /\ ~IsNull(viewport) /\ viewport.flow = 1
  /\ viewport.coords = Route60.coords \o Route85.coords

-----------------------------------------------------------------------------
(* Failures *)

\* C19: a flow whose request fails ends in that step with an alert, or,
\* for the source geocode, goes on to the destination geocode without a
\* source and ends with an alert when that one is in; a failed load of
\* the city list has shown an alert; and a flow that has not ended
\* waits for the answer of a request it has sent.
C19_FailuresNotified ==
  [][/\ \A f \in Flow :
          (Answered(f) /\ flows'[f].got = "error") =>
            \/ flows'[f].pc = "done" /\ flows'[f].alert # ""
            \/ /\ flows[f].pc = "geoSrc" /\ flows'[f].pc = "geoDst"
               /\ IsNull(flows'[f].src)
     /\ \A f \in Flow :
          (Answered(f) /\ flows[f].pc = "geoDst" /\ IsNull(flows[f].src)) =>
            flows'[f].pc = "done" /\ flows'[f].alert # ""
     /\ cityLoad'.got = "error" => cityLoad'.alert # ""
     /\ \A f \in 1..Len(flows') :
          flows'[f].pc # "done" =>
            /\ flows'[f].pc \in {"geoSrc", "geoDst", "route", "panic", "report"}
            /\ ~IsNull(flows'[f].request)]_vars

-----------------------------------------------------------------------------
(* Routes and endpoints *)

\* C20: srcCoords and dstCoords are both absent or both present; and
\* whenever fastest and safest are present they are the two routes of the
\* last route response that was stored, and the request of that response
\* was made for the places that srcCoords and dstCoords hold now.
C20_RoutesMatchEndpoints ==
  /\ IsNull(srcCoords) <=> IsNull(dstCoords)
  /\ (~IsNull(fastest) /\ ~IsNull(safest)) =>
       /\ Unlabelled(fastest) = Get(lastRoute.data, "fastest")
       /\ Unlabelled(safest) = Get(lastRoute.data, "safest")
       /\ ~IsNull(srcCoords) /\ ~IsNull(dstCoords)
       /\ lastRoute.params.src_lat = srcCoords.lat
       /\ lastRoute.params.src_lon = srcCoords.lon
       /\ lastRoute.params.dst_lat = dstCoords.lat
       /\ lastRoute.params.dst_lon = dstCoords.lon

====
